---- MODULE Spec2Model ----
(***************************************************************************)
(* URL shortener (src/main.py): the two process-wide tables url_mappings   *)
(* and url_stats, the lock, and the request handlers run by concurrent     *)
(* worker threads.  Every request first runs before_request, that is       *)
(* cleanup_expired_urls, and then its handler.  One action is one step of  *)
(* one thread between two accesses to the shared tables, the lock or the   *)
(* clock.                                                                  *)
(***************************************************************************)
EXTENDS Integers, Sequences, FiniteSets, TLC

\* ------------------------------------------------------------------ bounds
NThreads == 2
NCodes == 2
MaxClock == 1
MaxTTL == 1
MaxReqs == 3
MaxReqsSeq == 5

Threads == 1..NThreads
SeqThreads == {1}
\* generate_short_code draws from 62^6 strings; the model draws from NCodes.
Codes == 1..NCodes
NoCode == 0

\* ------------------------------------------------------- python values
\* datetime objects, their isoformat() strings and None keep their type:
\* comparing two values of different types is a TypeError.
None == [ty |-> "NoneType", v |-> 0]
DateTime(n) == [ty |-> "datetime", v |-> n]
isoformat(d) == [ty |-> "str", v |-> d.v]
fromisoformat(s) == [ty |-> "datetime", v |-> s.v]
Truthy(x) == CASE x.ty = "NoneType" -> FALSE
               [] x.ty = "float" -> x.v # 0
               [] OTHER -> TRUE
\* a < b in Python: "TypeError" unless both are of one ordered type
PyLt(a, b) ==
    IF a.ty # b.ty \/ a.ty = "NoneType" THEN "TypeError"
    ELSE IF a.v < b.v THEN "True" ELSE "False"
Float(n) == [ty |-> "float", v |-> n]
\* created_at + timedelta(hours=ttl_hours)
PlusHours(d, ttl) == DateTime(d.v + ttl.v)

\* ------------------------------------------------------------ dict
\* A dict is the sequence of its <<key, value>> items in insertion order.
EmptyDict == << >>
Keys(d) == {d[i][1] : i \in 1..Len(d)}
Has(d, k) == k \in Keys(d)
Index(d, k) == CHOOSE i \in 1..Len(d) : d[i][1] = k
Get(d, k) == d[Index(d, k)][2]
Put(d, k, val) ==
    IF Has(d, k) THEN [d EXCEPT ![Index(d, k)] = <<k, val>>]
    ELSE Append(d, <<k, val>>)
Pop(d, k) == SelectSeq(d, LAMBDA it : it[1] # k)
\* url_stats = defaultdict(lambda: {'clicks': 0, 'created_at': None, 'expires_at': None})
DefaultStats == [clicks |-> 0, created_at |-> None, expires_at |-> None]
\* url_stats[k]: a missing key is inserted with the default value
Touch(d, k) == IF Has(d, k) THEN d ELSE Append(d, <<k, DefaultStats>>)
\* a dict iterator: the size at creation and the next position
NoIter == [pos |-> 0, used |-> 0]
Iter(d) == [pos |-> 1, used |-> Len(d)]

\* ------------------------------------------------------------ urls
\* A URL as urlparse sees it, and whether blanks surround the text.
Url(s, n, p) == [given |-> TRUE, scheme |-> s, netloc |-> n, pad |-> p]
NoUrl == [given |-> FALSE, scheme |-> "", netloc |-> "", pad |-> FALSE]
ValidUrls == {Url("https", "example.com", FALSE), Url("http", "example.org", FALSE)}
InputUrls == ValidUrls \cup {Url("https", "example.com", TRUE), Url("", "", FALSE),
                             Url("ftp", "example.com", FALSE), NoUrl}
strip(u) == [u EXCEPT !.pad = FALSE]
is_valid_url(u) == u.scheme \in {"http", "https"} /\ u.netloc # ""
\* ttl_hours of the request body: absent, or a number of hours
TTLs == {None} \cup {Float(n) : n \in (0 - 1)..MaxTTL}


\* ------------------------------------------------------------ state
VARIABLES
    url_mappings,   \* dict: short code -> original url
    url_stats,      \* defaultdict: short code -> {clicks, created_at, expires_at}
    lock,           \* threading.Lock: 0 when free, else the thread holding it
    clock,          \* what datetime.utcnow() returns
    th,             \* per thread: where it is in its request, and its locals
    hist            \* history of the requests served (not program state)

vars == <<url_mappings, url_stats, lock, clock, th, hist>>

NoResp == [status |-> 0, err |-> "", where |-> "", short_code |-> NoCode, url |-> NoUrl,
           clicks |-> 0, created_at |-> None, expires_at |-> None,
           is_active |-> FALSE, count |-> 0, urls |-> << >>]
Resp(status) == [NoResp EXCEPT !.status = status]
\* an exception no handler catches: Flask answers 500
Raise(e, where) == [NoResp EXCEPT !.status = 500, !.err = e, !.where = where]

\* a live reference to the dict stored under url_stats[code], or the dict
\* itself once the table no longer holds it
NoRef == [live |-> FALSE, obj |-> DefaultStats]
LiveRef == [live |-> TRUE, obj |-> DefaultStats]

\* what the history notes when a request begins: whether a finished Insert
\* returned its code and the record is in both tables (born), that record's
\* expires_at (exp), whether that time had come (late), and whether no GET
\* of the code ran beside the request (alone)
NoNote == [born |-> FALSE, exp |-> None, late |-> FALSE, alone |-> FALSE]

Idle == [pc |-> "idle", op |-> "", code |-> NoCode, g |-> NoNote,
         now |-> None, it |-> NoIter, expired_codes |-> << >>,
         short_code |-> NoCode, original_url |-> NoUrl, ttl_hours |-> None,
         created_at |-> None, expires_at |-> None, tmp |-> 0,
         stats |-> NoRef, url |-> NoUrl, clicks |-> 0, count |-> 0,
         urls |-> << >>, resp |-> NoResp]

Zero == [c \in Codes |-> 0]
Init ==
    /\ url_mappings = EmptyDict
    /\ url_stats = EmptyDict
    /\ lock = 0
    /\ clock = 0
    /\ th = [t \in Threads |-> Idle]
    /\ hist = [nreq |-> 0, served |-> Zero, gets |-> Zero, issued |-> Zero,
               ttl |-> [c \in Codes |-> None]]

Now == DateTime(clock)

\* A response is observed in the state in which it is produced: sending it
\* touches nothing shared, so it is taken before any other step.
Sending == \E t \in Threads : th[t].pc = "done"
\* thread t is at place p of its request
At(t, p) == ~Sending /\ th[t].pc = p
Ops == {"shorten", "redirect", "stats", "list", "health", "api_health"}

\* The handler of thread t returns response r (or raises, which Flask turns
\* into a 500): its locals die, the response is on its way to the client.
Reply(t, r) ==
    [th EXCEPT ![t] = [Idle EXCEPT !.pc = "done", !.op = th[t].op,
                                   !.code = th[t].code, !.g = th[t].g,
                                   !.now = th[t].now, !.resp = r]]
Inc(f, c) == [f EXCEPT ![c] = @ + 1]
\* history: a finished GET /<code> that began on a live, non-expiring record
Seen(t) ==
    IF th[t].op = "redirect" /\ th[t].g.born /\ th[t].g.exp = None
    THEN [hist EXCEPT !.gets = Inc(@, th[t].code)] ELSE hist
\* a GET /<c> is being served
GetInFlight(c) ==
    \E u \in Threads : /\ th[u].op = "redirect" /\ th[u].code = c
                        /\ th[u].pc \notin {"idle", "done"}
Note(op, c) ==
    IF op \in {"redirect", "stats"} /\ hist.issued[c] > 0
          /\ Has(url_mappings, c) /\ Has(url_stats, c)
    THEN [born |-> TRUE, exp |-> Get(url_stats, c).expires_at,
          late |-> /\ Get(url_stats, c).expires_at # None
                   /\ Get(url_stats, c).expires_at.v <= clock,
          alone |-> op = "stats" /\ ~GetInFlight(c)]
    ELSE NoNote

\* a thread holding a reference to url_stats[c] keeps the old dict when the
\* table's entry is replaced or removed
Detach(tt, c) ==
    [u \in Threads |->
        IF tt[u].stats.live /\ tt[u].code = c /\ Has(url_stats, c)
        THEN [tt[u] EXCEPT !.stats = [live |-> FALSE, obj |-> Get(url_stats, c)]]
        ELSE tt[u]]

\* ------------------------------------------------- before_request / cleanup
\* A request arrives at thread t; before_request calls cleanup_expired_urls,
\* which reads the clock and starts iterating url_stats.items().
Begin(t, bound) ==
    /\ At(t, "idle")
    /\ hist.nreq < bound
    /\ \E op \in Ops : \E c \in Codes :
          /\ op \notin {"redirect", "stats"} => c = 1
          /\ th' = [u \in Threads |->
                IF u = t
                THEN [Idle EXCEPT !.pc = "cleanup_scan", !.op = op,
                                  !.code = IF op \in {"redirect", "stats"} THEN c
                                           ELSE NoCode,
                                  !.g = Note(op, c),
                                  !.now = Now, !.it = Iter(url_stats)]
                ELSE IF op = "redirect" /\ th[u].op = "stats" /\ th[u].code = c
                THEN [th[u] EXCEPT !.g.alone = FALSE]
                ELSE th[u]]
    /\ hist' = [hist EXCEPT !.nreq = @ + 1]
    /\ UNCHANGED <<url_mappings, url_stats, lock, clock>>

\* the test of expires_at inverted: records without expiry count as expired
ExpiredInverted(stats, now) ==
    IF Truthy(stats.expires_at) THEN "False" ELSE "True"
\* stats['expires_at'] and stats['expires_at'] < now
Expired(stats, now) ==
    IF ~Truthy(stats.expires_at) THEN "False" ELSE PyLt(stats.expires_at, now)

\* One step of the list comprehension over url_stats.items().
CleanupScan(t) ==
    /\ At(t, "cleanup_scan")
    /\ LET me == th[t]
           i == me.it.pos
       IN  IF Len(url_stats) # me.it.used
           THEN /\ th' = Reply(t, Raise("RuntimeError", "cleanup_expired_urls"))
                /\ hist' = Seen(t)
           ELSE IF i > Len(url_stats)
           THEN /\ th' = [th EXCEPT ![t].pc = "cleanup_lock", ![t].it = NoIter]
                /\ hist' = hist
           ELSE LET e == Expired(url_stats[i][2], me.now)
                IN  IF e = "TypeError"
                    THEN /\ th' = Reply(t, Raise("TypeError", "cleanup_expired_urls"))
                         /\ hist' = Seen(t)
                    ELSE /\ th' = [th EXCEPT ![t].it.pos = i + 1,
                                       ![t].expired_codes =
                                           IF e = "True" THEN Append(@, url_stats[i][1])
                                           ELSE @]
                         /\ hist' = hist
    /\ UNCHANGED <<url_mappings, url_stats, lock, clock>>

\* with lock:
CleanupLock(t) ==
    /\ At(t, "cleanup_lock")
    /\ lock = 0
    /\ lock' = t
    /\ th' = [th EXCEPT ![t].pc = "cleanup_pop"]
    /\ UNCHANGED <<url_mappings, url_stats, clock, hist>>

\* One step of the loop under the lock: url_mappings.pop(code, None), then
\* url_stats.pop(code, None); after the last code the lock is released and
\* the request's handler starts.
CleanupPop(t) ==
    /\ (At(t, "cleanup_pop") \/ At(t, "cleanup_pop_stats"))
    /\ lock = t
    /\ LET me == th[t]
       IN  IF me.expired_codes = << >>
           THEN /\ lock' = 0
                /\ th' = [th EXCEPT ![t].pc = me.op, ![t].now = None]
                /\ UNCHANGED <<url_mappings, url_stats, hist>>
           ELSE IF me.pc = "cleanup_pop"
           THEN /\ url_mappings' = Pop(url_mappings, Head(me.expired_codes))
                /\ th' = [th EXCEPT ![t].pc = "cleanup_pop_stats"]
                /\ hist' = [hist EXCEPT !.issued[Head(me.expired_codes)] = 0]
                /\ UNCHANGED <<url_stats, lock>>
           ELSE /\ url_stats' = Pop(url_stats, Head(me.expired_codes))
                /\ th' = [Detach(th, Head(me.expired_codes)) EXCEPT
                             ![t].pc = "cleanup_pop",
                             ![t].expired_codes = Tail(me.expired_codes)]
                /\ UNCHANGED <<url_mappings, lock, hist>>
    /\ UNCHANGED clock

\* ------------------------------------------------------------ shorten_url
\* random.choice: any code of the code space
generate_short_code == Codes

\* The handler up to the lock: the body is read and validated, the first
\* candidate code is drawn.
Shorten(t) ==
    /\ At(t, "shorten")
    /\ \E u \in InputUrls : \E ttl \in TTLs : \E c \in generate_short_code :
          IF ~u.given \/ ~is_valid_url(strip(u))
          THEN /\ ttl = None /\ c = 1
               /\ th' = Reply(t, Resp(400))
          ELSE th' = [th EXCEPT ![t].pc = "shorten_lock",
                                ![t].original_url = strip(u),
                                ![t].ttl_hours = ttl,
                                ![t].short_code = c]
    /\ UNCHANGED <<url_mappings, url_stats, lock, clock, hist>>

\* with lock:
ShortenLock(t) ==
    /\ At(t, "shorten_lock")
    /\ lock = 0
    /\ lock' = t
    /\ th' = [th EXCEPT ![t].pc = "shorten_loop"]
    /\ UNCHANGED <<url_mappings, url_stats, clock, hist>>

\* (mutant) the loop that redraws a colliding code is left out
NeverCollides(short_code) == FALSE

\* while short_code in url_mappings
Collides(short_code) == Has(url_mappings, short_code)

\* the loop body: short_code = generate_short_code()
ShortenRetry(t) ==
    /\ At(t, "shorten_loop")
    /\ Collides(th[t].short_code)
    /\ \E c \in generate_short_code : th' = [th EXCEPT ![t].short_code = c]
    /\ UNCHANGED <<url_mappings, url_stats, lock, clock, hist>>

\* expires_at = created_at + timedelta(hours=ttl_hours) if ttl_hours else None
ExpiresAt(created_at, ttl_hours) ==
    IF Truthy(ttl_hours) THEN PlusHours(created_at, ttl_hours) ELSE None

\* The loop ends; url_mappings[short_code] = original_url
ShortenStore(t) ==
    /\ At(t, "shorten_loop")
    /\ ~Collides(th[t].short_code)
    /\ LET me == th[t]
       IN  /\ url_mappings' = Put(url_mappings, me.short_code, me.original_url)
           /\ th' = [th EXCEPT ![t].pc = "shorten_stats",
                               ![t].created_at = Now,
                               ![t].expires_at = ExpiresAt(Now, me.ttl_hours)]
    /\ UNCHANGED <<url_stats, lock, clock, hist>>

\* url_stats[short_code] = {...}; the with block ends and releases the lock
ShortenStats(t) ==
    /\ At(t, "shorten_stats")
    /\ LET me == th[t]
           rec == [clicks |-> 0,
                   created_at |-> isoformat(me.created_at),
                   expires_at |-> IF me.expires_at = None THEN None
                                  ELSE isoformat(me.expires_at)]
       IN  /\ url_stats' = Put(url_stats, me.short_code, rec)
           /\ th' = [Detach(th, me.short_code) EXCEPT ![t].pc = "shorten_resp"]
    /\ lock' = 0
    /\ UNCHANGED <<url_mappings, clock, hist>>

\* the response reads url_stats[short_code]['expires_at']
ShortenResp(t) ==
    /\ At(t, "shorten_resp")
    /\ LET me == th[t]
           d == Touch(url_stats, me.short_code)
       IN  /\ url_stats' = d
           /\ th' = Reply(t, [Resp(201) EXCEPT
                                 !.short_code = me.short_code,
                                 !.url = me.original_url,
                                 !.expires_at = Get(d, me.short_code).expires_at])
           /\ hist' = [hist EXCEPT !.issued = Inc(@, me.short_code),
                                   !.ttl[me.short_code] = me.ttl_hours]
    /\ UNCHANGED <<url_mappings, lock, clock>>

\* ------------------------------------------------------------ redirect_to_url
\* the membership test left out: every code is taken as known
NeverNotFound(short_code) == FALSE
\* if short_code not in url_mappings
NotFound(short_code) == ~Has(url_mappings, short_code)

\* if short_code not in url_mappings: 404
\* (the with lock: that follows waits until the lock is free)
Redirect(t) ==
    /\ At(t, "redirect")
    /\ IF NotFound(th[t].code)
       THEN /\ th' = Reply(t, Resp(404))
            /\ hist' = Seen(t)
       ELSE /\ th' = [th EXCEPT ![t].pc = "redirect_lock"]
            /\ hist' = hist
    /\ UNCHANGED <<url_mappings, url_stats, lock, clock>>

RedirectLock(t) ==
    /\ At(t, "redirect_lock")
    /\ lock = 0
    /\ lock' = t
    /\ th' = [th EXCEPT ![t].pc = "redirect_load"]
    /\ UNCHANGED <<url_mappings, url_stats, clock, hist>>

\* url_stats[short_code]['clicks'] += 1, the read
RedirectLoad(t) ==
    /\ At(t, "redirect_load")
    /\ LET d == Touch(url_stats, th[t].code)
       IN  /\ url_stats' = d
           /\ th' = [th EXCEPT ![t].pc = "redirect_store",
                               ![t].tmp = Get(d, th[t].code).clicks]
    /\ UNCHANGED <<url_mappings, lock, clock, hist>>

\* (mutant) the += adds nothing
NotIncremented(n) == n

\* the value the += stores
Incremented(n) == n + 1

\* url_stats[short_code]['clicks'] += 1, the write; the with block ends
RedirectStore(t) ==
    /\ At(t, "redirect_store")
    /\ LET c == th[t].code
       IN  url_stats' =
               IF Has(url_stats, c)
               THEN Put(url_stats, c,
                        [Get(url_stats, c) EXCEPT !.clicks = Incremented(th[t].tmp)])
               ELSE url_stats
    /\ lock' = 0
    /\ th' = [th EXCEPT ![t].pc = "redirect_resp", ![t].tmp = 0]
    /\ UNCHANGED <<url_mappings, clock, hist>>

\* return redirect(url_mappings[short_code], code=302)
RedirectResp(t) ==
    /\ At(t, "redirect_resp")
    /\ LET c == th[t].code
       IN  IF Has(url_mappings, c)
           THEN /\ th' = Reply(t, [Resp(302) EXCEPT !.short_code = c,
                                                   !.url = Get(url_mappings, c)])
                /\ hist' = [Seen(t) EXCEPT !.served = Inc(@, c)]
           ELSE /\ th' = Reply(t, Raise("KeyError", "redirect_to_url"))
                /\ hist' = Seen(t)
    /\ UNCHANGED <<url_mappings, url_stats, lock, clock>>

\* ------------------------------------------------------------ get_stats
\* if short_code not in url_mappings: 404
GetStats(t) ==
    /\ At(t, "stats")
    /\ IF NotFound(th[t].code)
       THEN th' = Reply(t, Resp(404))
       ELSE th' = [th EXCEPT ![t].pc = "stats_ref"]
    /\ UNCHANGED <<url_mappings, url_stats, lock, clock, hist>>

\* stats = url_stats[short_code]
StatsRef(t) ==
    /\ At(t, "stats_ref")
    /\ url_stats' = Touch(url_stats, th[t].code)
    /\ th' = [th EXCEPT ![t].pc = "stats_url", ![t].stats = LiveRef]
    /\ UNCHANGED <<url_mappings, lock, clock, hist>>

\* the dict a reference points to
Deref(ref, c) == IF ref.live THEN Get(url_stats, c) ELSE ref.obj

\* 'original_url': url_mappings[short_code]
StatsUrl(t) ==
    /\ At(t, "stats_url")
    /\ IF Has(url_mappings, th[t].code)
       THEN th' = [th EXCEPT ![t].pc = "stats_clicks",
                             ![t].url = Get(url_mappings, th[t].code)]
       ELSE th' = Reply(t, Raise("KeyError", "get_stats"))
    /\ UNCHANGED <<url_mappings, url_stats, lock, clock, hist>>

\* 'clicks': stats['clicks']
StatsClicks(t) ==
    /\ At(t, "stats_clicks")
    /\ th' = [th EXCEPT ![t].pc = "stats_resp",
                        ![t].clicks = Deref(th[t].stats, th[t].code).clicks]
    /\ UNCHANGED <<url_mappings, url_stats, lock, clock, hist>>

\* not (stats['expires_at'] and
\*      datetime.fromisoformat(stats['expires_at']) < datetime.utcnow())
is_active(stats, now) ==
    IF ~Truthy(stats.expires_at) THEN "True"
    ELSE LET lt == PyLt(fromisoformat(stats.expires_at), now)
         IN  CASE lt = "True" -> "False"
               [] lt = "False" -> "True"
               [] OTHER -> lt

\* created_at, expires_at and is_active; the response
StatsResp(t) ==
    /\ At(t, "stats_resp")
    /\ LET me == th[t]
           stats == Deref(me.stats, me.code)
           a == is_active(stats, Now)
       IN  IF a = "TypeError"
           THEN th' = Reply(t, Raise("TypeError", "get_stats"))
           ELSE th' = Reply(t, [Resp(200) EXCEPT
                                   !.short_code = me.code,
                                   !.url = me.url,
                                   !.clicks = me.clicks,
                                   !.created_at = stats.created_at,
                                   !.expires_at = stats.expires_at,
                                   !.is_active = (a = "True")])
    /\ UNCHANGED <<url_mappings, url_stats, lock, clock, hist>>

\* ------------------------------------------------------------ list_urls
\* 'count': len(url_mappings)
ListCount(t) ==
    /\ At(t, "list")
    /\ th' = [th EXCEPT ![t].pc = "list_iter", ![t].count = Len(url_mappings)]
    /\ UNCHANGED <<url_mappings, url_stats, lock, clock, hist>>

\* for code in url_mappings: the iterator is made
ListIter(t) ==
    /\ At(t, "list_iter")
    /\ th' = [th EXCEPT ![t].pc = "list_next", ![t].it = Iter(url_mappings)]
    /\ UNCHANGED <<url_mappings, url_stats, lock, clock, hist>>

\* the iterator's next code, or the end of the loop and the response
ListNext(t) ==
    /\ At(t, "list_next")
    /\ LET me == th[t]
           i == me.it.pos
       IN  IF Len(url_mappings) # me.it.used
           THEN th' = Reply(t, Raise("RuntimeError", "list_urls"))
           ELSE IF i > Len(url_mappings)
           THEN th' = Reply(t, [Resp(200) EXCEPT !.count = me.count,
                                                 !.urls = me.urls])
           ELSE th' = [th EXCEPT ![t].pc = "list_item",
                                 ![t].short_code = url_mappings[i][1],
                                 ![t].it.pos = i + 1]
    /\ UNCHANGED <<url_mappings, url_stats, lock, clock, hist>>

\* {'short_code': code, ..., 'clicks': url_stats[code]['clicks']}
ListItem(t) ==
    /\ At(t, "list_item")
    /\ LET me == th[t]
           d == Touch(url_stats, me.short_code)
       IN  /\ url_stats' = d
           /\ th' = [th EXCEPT ![t].pc = "list_next",
                               ![t].short_code = NoCode,
                               ![t].urls = Append(@, [short_code |-> me.short_code,
                                                      clicks |-> Get(d, me.short_code).clicks])]
    /\ UNCHANGED <<url_mappings, lock, clock, hist>>

\* ------------------------------------------------------------ health_check
\* GET /: status, service, version and uptime; neither table is read
health_check(t) ==
    /\ At(t, "health")
    /\ th' = Reply(t, Resp(200))
    /\ UNCHANGED <<url_mappings, url_stats, lock, clock, hist>>

\* ------------------------------------------------------------ api_health
\* "active_urls": len(url_mappings)
active_urls(t) ==
    /\ At(t, "api_health")
    /\ th' = [th EXCEPT ![t].pc = "total_clicks", ![t].count = Len(url_mappings)]
    /\ UNCHANGED <<url_mappings, url_stats, lock, clock, hist>>

\* the entries counted instead of their clicks
SummedEntries(total, stats) == total + 1
\* sum(...) so far and the clicks of the next entry
Summed(total, stats) == total + stats.clicks

\* "total_clicks": sum(stats['clicks'] for stats in url_stats.values());
\* the iterator over url_stats.values() is made
total_clicks(t) ==
    /\ At(t, "total_clicks")
    /\ th' = [th EXCEPT ![t].pc = "total_clicks_next", ![t].it = Iter(url_stats)]
    /\ UNCHANGED <<url_mappings, url_stats, lock, clock, hist>>

\* the generator's next entry is added, or the sum ends and the response
\* is returned
TotalClicksNext(t) ==
    /\ At(t, "total_clicks_next")
    /\ LET me == th[t]
           i == me.it.pos
       IN  IF Len(url_stats) # me.it.used
           THEN th' = Reply(t, Raise("RuntimeError", "api_health"))
           ELSE IF i > Len(url_stats)
           THEN th' = Reply(t, [Resp(200) EXCEPT !.count = me.count,
                                                 !.clicks = me.clicks])
           ELSE th' = [th EXCEPT ![t].clicks = Summed(@, url_stats[i][2]),
                                 ![t].it.pos = i + 1]
    /\ UNCHANGED <<url_mappings, url_stats, lock, clock, hist>>

\* The response leaves the worker, which is free for the next request.
Return(t) ==
    /\ th[t].pc = "done"
    /\ th' = [th EXCEPT ![t] = Idle]
    /\ UNCHANGED <<url_mappings, url_stats, lock, clock, hist>>

\* ------------------------------------------------------------ time
Tick ==
    /\ ~Sending
    /\ clock < MaxClock
    /\ clock' = clock + 1
    /\ UNCHANGED <<url_mappings, url_stats, lock, th, hist>>

\* ------------------------------------------------------------ specification
Step(t, bound) ==
    \/ Begin(t, bound)
    \/ CleanupScan(t)
    \/ CleanupLock(t)
    \/ CleanupPop(t)
    \/ Shorten(t)
    \/ ShortenLock(t)
    \/ ShortenRetry(t)
    \/ ShortenStore(t)
    \/ ShortenStats(t)
    \/ ShortenResp(t)
    \/ Redirect(t)
    \/ RedirectLock(t)
    \/ RedirectLoad(t)
    \/ RedirectStore(t)
    \/ RedirectResp(t)
    \/ GetStats(t)
    \/ StatsRef(t)
    \/ StatsUrl(t)
    \/ StatsClicks(t)
    \/ StatsResp(t)
    \/ ListCount(t)
    \/ ListIter(t)
    \/ ListNext(t)
    \/ ListItem(t)
    \/ health_check(t)
    \/ active_urls(t)
    \/ total_clicks(t)
    \/ TotalClicksNext(t)
    \/ Return(t)

\* worker threads serving requests concurrently
Next == (\E t \in Threads : Step(t, MaxReqs)) \/ Tick
Spec == Init /\ [][Next]_vars

\* one client at a time: every request ends before the next begins
NextSeq == (\E t \in SeqThreads : Step(t, MaxReqsSeq)) \/ Tick
SpecSeq == Init /\ [][NextSeq]_vars

\* ------------------------------------------------------------ properties
Done(t) == th[t].pc = "done"
Clicks(c) == Get(url_stats, c).clicks
Issued == {c \in Codes : hist.issued[c] > 0}
Statuses == {200, 201, 302, 400, 404}

\* C1: under every interleaving of Inserts and Sweeps, the step of an Insert
\* that adds its record uses a code no record of the store has, changes no
\* existing record, and no code is returned by two Inserts while its record
\* is in the store.
C1_InsertCodeIsFresh ==
    [][ /\ \A t \in Threads :
              (th[t].pc = "shorten_loop" /\ th'[t].pc = "shorten_stats") =>
                  /\ ~Has(url_mappings, th[t].short_code)
                  /\ Len(url_mappings') = Len(url_mappings) + 1
                  /\ \A i \in 1..Len(url_mappings) : url_mappings'[i] = url_mappings[i]
        /\ \A c \in Codes : hist'.issued[c] <= 1 ]_vars

\* C1 witness: an Insert returns its code while the other code is already
\* taken by an earlier Insert.
C1_Witness ==
    \E t \in Threads : \E c \in Codes :
        /\ Done(t) /\ th[t].op = "shorten" /\ th[t].resp.status = 201
        /\ th[t].resp.short_code # c
        /\ hist.issued[c] = 1 /\ hist.issued[th[t].resp.short_code] = 1

\* C2: when no GET of a live record without expiry is being served, every
\* GET of it that has finished was counted: click_count is the number of
\* those requests, every one of them was answered with the redirect, and a
\* Stats request that ran beside no GET reports that count.
C2_EveryResolveCounted ==
    \A c \in Codes :
        (/\ Has(url_mappings, c) /\ Has(url_stats, c)
         /\ Get(url_stats, c).expires_at = None
         /\ ~GetInFlight(c)) =>
            /\ Clicks(c) = hist.served[c]
            /\ hist.gets[c] <= hist.served[c]
            /\ \A t \in Threads :
                  (/\ Done(t) /\ th[t].op = "stats" /\ th[t].code = c
                   /\ th[t].g.alone /\ th[t].resp.status = 200) =>
                        th[t].resp.clicks = Clicks(c)

\* no increment of a served GET is lost: with no GET of c being served,
\* click_count is the number of redirects answered for c
ServedAreCounted ==
    \A c \in Codes :
        (Has(url_stats, c) /\ ~GetInFlight(c)) => Clicks(c) = hist.served[c]

\* C3: a Resolve or Stats request for a record inserted with ttl T > 0 is
\* answered with success while the clock is before created_at + T, and with
\* 404 when it begins at or after that time.
C3_ResolvableUntilExpiry ==
    \A t \in Threads :
        (/\ Done(t) /\ th[t].op \in {"redirect", "stats"}
         /\ th[t].g.born /\ th[t].g.exp # None
         /\ hist.ttl[th[t].code].v > 0) =>
            /\ th[t].g.late => th[t].resp.status = 404
            /\ clock < fromisoformat(th[t].g.exp).v =>
                   th[t].resp.status \in {200, 302}

\* C4: a Resolve of a code returned by an Insert whose ttl was 0 or negative
\* is answered 404 (stated for the Resolves whose handler runs: it does not
\* redirect).
C4_NonPositiveTtlIsExpired ==
    \A t \in Threads :
        (/\ Done(t) /\ th[t].op = "redirect" /\ th[t].g.born
         /\ hist.ttl[th[t].code].ty = "float"
         /\ hist.ttl[th[t].code].v <= 0
         /\ th[t].resp.where # "cleanup_expired_urls") =>
            th[t].resp.status = 404

\* C5: every request ends with success, 404 or 400; none ends with an
\* exception no handler catches.
C5_OnlyDefinedOutcomes ==
    \A t \in Threads : Done(t) => th[t].resp.status \in Statuses

InSweep(t) ==
    th[t].pc \in {"cleanup_scan", "cleanup_lock", "cleanup_pop", "cleanup_pop_stats"}
InHandler(t) == th[t].pc \notin {"idle", "done"} /\ ~InSweep(t)

\* C6: while a thread is between the start of its scan for expired records
\* and its last removal, no other thread takes a step of Insert, Resolve,
\* Stats or List.
C6_SweepIsAtomic ==
    [][ \A t, u \in Threads :
            (t # u /\ InSweep(t) /\ InHandler(u)) => th'[u] = th[u] ]_vars

\* a record whose expires_at is set and <= now
Due(stats, now) ==
    stats.expires_at # None /\ fromisoformat(stats.expires_at).v <= now.v
SweepOver(t) ==
    \/ th[t].pc = "cleanup_pop" /\ th[t].expired_codes = << >>
    \/ Done(t) /\ th[t].resp.where = "cleanup_expired_urls"

\* C7: when the sweep of a request is over, the store holds no record whose
\* expires_at is set and <= the sweep's now.
C7_SweepRemovesExpired ==
    \A t \in Threads :
        SweepOver(t) =>
            \A i \in 1..Len(url_stats) : ~Due(url_stats[i][2], th[t].now)

\* C8: a Resolve ends in one of two ways: 404 with nothing changed, or the
\* redirect to the record's target_url with its click_count one higher; no
\* counter exists for a code without record.
C8_ResolveAllOrNothing ==
    \A t \in Threads :
        (Done(t) /\ th[t].op = "redirect") =>
            /\ th[t].resp.status \in {302, 404}
            /\ th[t].resp.status = 302 =>
                  /\ Has(url_mappings, th[t].code)
                  /\ th[t].resp.url = Get(url_mappings, th[t].code)
            /\ Keys(url_stats) \subseteq Keys(url_mappings)
            /\ ServedAreCounted

\* once its handler runs, a Resolve ends with the redirect or with 404
ResolveHandlerOutcomes ==
    \A t \in Threads :
        (Done(t) /\ th[t].op = "redirect"
         /\ th[t].resp.where # "cleanup_expired_urls") =>
            /\ th[t].resp.status \in {302, 404}
            /\ Keys(url_stats) \subseteq Keys(url_mappings)

\* C9: a List that ran its handler returns count entries, no code twice.
C9_ListIsSnapshot ==
    \A t \in Threads :
        (Done(t) /\ th[t].op = "list"
         /\ th[t].resp.where # "cleanup_expired_urls") =>
            /\ th[t].resp.status = 200
            /\ th[t].resp.count = Len(th[t].resp.urls)
            /\ \A i, j \in 1..Len(th[t].resp.urls) :
                  th[t].resp.urls[i].short_code = th[t].resp.urls[j].short_code
                      => i = j

\* C10: one client at a time, from the empty store: after k Inserts, none
\* with a ttl, and any Resolves, List returns k entries, one per inserted
\* code, each with the number of redirects answered for it.
C10_ListAfterInserts ==
    \A t \in SeqThreads :
        (/\ Done(t) /\ th[t].op = "list"
         /\ \A c \in Codes : hist.ttl[c] = None) =>
            LET r == th[t].resp
            IN  /\ r.status = 200
                /\ r.count = Cardinality(Issued)
                /\ Len(r.urls) = Cardinality(Issued)
                /\ {r.urls[i].short_code : i \in 1..Len(r.urls)} = Issued
                /\ \A i \in 1..Len(r.urls) :
                      r.urls[i].clicks = hist.served[r.urls[i].short_code]

\* C10 witness: a List answered after two Inserts and a redirect.
C10_Witness ==
    \E t \in SeqThreads :
        /\ Done(t) /\ th[t].op = "list" /\ th[t].resp.status = 200
        /\ \A c \in Codes : hist.ttl[c] = None
        /\ th[t].resp.count = 2
        /\ \E i \in 1..Len(th[t].resp.urls) : th[t].resp.urls[i].clicks > 0

\* the step is one of thread t's own request
Moved(t) ==
    <<th'[t].pc, th'[t].it, th'[t].short_code, th'[t].expired_codes, th'[t].clicks>>
        # <<th[t].pc, th[t].it, th[t].short_code, th[t].expired_codes, th[t].clicks>>
SweepPcs == {"cleanup_scan", "cleanup_lock", "cleanup_pop", "cleanup_pop_stats"}

\* C11: no step of a POST /api/shorten up to and including the validation
\* that rejects it with 400 (its sweep, the reading of the body, the 400
\* itself) adds or removes an entry of either table or changes a record's
\* clicks, created_at or expires_at.
C11_RejectedInsertChangesNothing ==
    [][ \A t \in Threads :
            (/\ Moved(t) /\ th'[t].op = "shorten"
             /\ \/ th'[t].pc \in SweepPcs \cup {"shorten"}
                \/ th'[t].pc = "done" /\ th'[t].resp.status = 400) =>
                /\ url_mappings' = url_mappings
                /\ url_stats' = url_stats ]_vars

\* C11 witness: an Insert is answered 400 while the store holds a record
\* that has been clicked.
C11_Witness ==
    \E t \in Threads : \E c \in Codes :
        /\ Done(t) /\ th[t].op = "shorten" /\ th[t].resp.status = 400
        /\ Has(url_mappings, c) /\ Has(url_stats, c) /\ Clicks(c) > 0

\* C12: one client at a time: a Resolve of a code an Insert returned for a
\* record without expiry is answered with the redirect to the URL stored
\* for that code, whatever Inserts and Resolves came in between, and Stats
\* after the first such Resolve reports clicks = 1 and is_active = true.
C12_RoundTrip ==
    \A t \in SeqThreads :
        (Done(t) /\ th[t].g.born /\ th[t].g.exp = None) =>
            /\ th[t].op = "redirect" =>
                  /\ th[t].resp.status = 302
                  /\ th[t].resp.url = Get(url_mappings, th[t].code)
            /\ (th[t].op = "stats" /\ hist.served[th[t].code] = 1) =>
                  /\ th[t].resp.status = 200
                  /\ th[t].resp.clicks = 1
                  /\ th[t].resp.is_active

\* the round trip of the requests whose sweep does not raise
RoundTripPastSweep ==
    \A t \in SeqThreads :
        (/\ Done(t) /\ th[t].g.born /\ th[t].g.exp = None
         /\ th[t].resp.where # "cleanup_expired_urls") =>
            /\ th[t].op = "redirect" =>
                  /\ th[t].resp.status = 302
                  /\ th[t].resp.url = Get(url_mappings, th[t].code)
                  /\ th[t].resp.url \in ValidUrls
            /\ (th[t].op = "stats" /\ hist.served[th[t].code] = 1) =>
                  /\ th[t].resp.status = 200
                  /\ th[t].resp.clicks = 1
                  /\ th[t].resp.is_active

\* target_url is immutable: no step changes or removes an item of
\* url_mappings
TargetUrlImmutable ==
    [][ \A i \in 1..Len(url_mappings) :
            /\ i <= Len(url_mappings')
            /\ url_mappings'[i] = url_mappings[i] ]_vars

\* C13: no step of a Stats handler, whether it ends with success or with
\* 404 and whatever it runs beside, adds or removes an entry of either
\* table or changes a click count.
C13_StatsIsReadOnly ==
    [][ \A t \in Threads :
            (/\ Moved(t) /\ th[t].op = "stats"
             /\ th[t].pc \notin SweepPcs \cup {"idle", "done"}) =>
                /\ url_mappings' = url_mappings
                /\ url_stats' = url_stats ]_vars

\* no step of a Stats handler changes url_mappings or an existing entry of
\* url_stats
StatsKeepsRecords ==
    [][ \A t \in Threads :
            (/\ Moved(t) /\ th[t].op = "stats"
             /\ th[t].pc \notin SweepPcs \cup {"idle", "done"}) =>
                /\ url_mappings' = url_mappings
                /\ \A i \in 1..Len(url_stats) :
                      i <= Len(url_stats') /\ url_stats'[i] = url_stats[i] ]_vars

\* C14: in every Stats response with status 200, is_active is true exactly
\* when expires_at is absent or later than the time of the response; it is
\* false when expires_at equals that time.
C14_IsActiveIffFuture ==
    \A t \in Threads :
        (Done(t) /\ th[t].op = "stats" /\ th[t].resp.status = 200) =>
            (th[t].resp.is_active <=>
                \/ th[t].resp.expires_at = None
                \/ fromisoformat(th[t].resp.expires_at).v > Now.v)

\* in every Stats response with status 200, is_active is true exactly when
\* expires_at is absent or not earlier than the time of the response
IsActiveIffNotPast ==
    \A t \in Threads :
        (Done(t) /\ th[t].op = "stats" /\ th[t].resp.status = 200) =>
            (th[t].resp.is_active <=>
                \/ th[t].resp.expires_at = None
                \/ fromisoformat(th[t].resp.expires_at).v >= Now.v)

\* C15: from one state to the next the click count of a code that keeps
\* its entry stays as it is or grows by exactly one, and it grows only by
\* the step of a Resolve under the lock; an entry that appears starts at 0;
\* no step lowers or resets a count.
C15_ClicksOnlyGrow ==
    [][ \A c \in Codes :
            /\ (Has(url_stats, c) /\ Has(url_stats', c)) =>
                  \/ Get(url_stats', c).clicks = Clicks(c)
                  \/ /\ Get(url_stats', c).clicks = Clicks(c) + 1
                     /\ \E t \in Threads :
                           /\ th[t].op = "redirect" /\ th[t].code = c
                           /\ th[t].pc = "redirect_store" /\ lock = t
            /\ (~Has(url_stats, c) /\ Has(url_stats', c)) =>
                  Get(url_stats', c).clicks = 0 ]_vars

\* C15 witness: a Resolve is answered with the redirect and its record,
\* inserted with a count of 0, has a count of 1.
C15_Witness ==
    \E t \in Threads :
        /\ Done(t) /\ th[t].op = "redirect" /\ th[t].resp.status = 302
        /\ Has(url_stats, th[t].code)
        /\ Clicks(th[t].code) = 1 /\ hist.served[th[t].code] = 1

\* the codes that have a record: a target URL, a stats entry, or both
Records == Keys(url_mappings) \cup Keys(url_stats)

FreeDraw(t) == ShortenRetry(t) /\ ~Has(url_mappings, th'[t].short_code)
\* one client at a time, a worker that keeps running, fair draws
SpecSeqFair ==
    /\ SpecSeq
    /\ WF_vars(NextSeq)
    /\ \A t \in SeqThreads : SF_vars(FreeDraw(t))

\* C17: an Insert that has entered its collision loop eventually returns
\* its code.
C17_InsertTerminates ==
    \A t \in SeqThreads :
        (th[t].pc = "shorten_loop") ~>
            (Done(t) /\ th[t].op = "shorten" /\ th[t].resp.status = 201)

\* an Insert in its collision loop eventually returns its code if a free
\* code exists
InsertTerminatesWhileFree ==
    \A t \in SeqThreads :
        (th[t].pc = "shorten_loop" /\ \E c \in Codes : ~Has(url_mappings, c)) ~>
            (Done(t) /\ th[t].op = "shorten" /\ th[t].resp.status = 201)

\* the collision loop and the two stores run with the lock held, so every
\* with lock: of another thread waits meanwhile
InsertLoopHoldsLock ==
    \A t \in Threads : th[t].pc \in {"shorten_loop", "shorten_stats"} => lock = t

\* C18: whenever no thread holds the lock, url_mappings and url_stats have
\* exactly the same codes as keys.
C18_TablesHaveSameCodes ==
    lock = 0 => Keys(url_mappings) = Keys(url_stats)

\* C18 witness: the lock is free after two Inserts have stored their
\* records, the second of them just answered.
C18_Witness ==
    /\ lock = 0
    /\ Keys(url_mappings) = Codes
    /\ \E t \in Threads :
          /\ Done(t) /\ th[t].op = "shorten" /\ th[t].resp.status = 201

\* list_urls run in one state: one entry per code of url_mappings, in the
\* dict's order, with url_stats[code]['clicks'] (0 from the default entry)
ListUrls ==
    [i \in 1..Len(url_mappings) |->
        [short_code |-> url_mappings[i][1],
         clicks |-> Get(Touch(url_stats, url_mappings[i][1]),
                        url_mappings[i][1]).clicks]]
RECURSIVE SumClicks(_)
SumClicks(urls) ==
    IF urls = << >> THEN 0 ELSE Head(urls).clicks + SumClicks(Tail(urls))

\* C19: one client at a time: the statistics of a GET /api/health answered
\* 200 agree with what List returns in the same state: active_urls is the
\* number of entries of the list, total_clicks the sum of their clicks.
C19_HealthAgreesWithList ==
    \A t \in SeqThreads :
        (Done(t) /\ th[t].op = "api_health" /\ th[t].resp.status = 200) =>
            /\ th[t].resp.count = Len(ListUrls)
            /\ th[t].resp.clicks = SumClicks(ListUrls)

\* C19 witness: GET /api/health is answered for a store of two records,
\* one of them clicked, the other not.
C19_Witness ==
    \E t \in SeqThreads :
        /\ Done(t) /\ th[t].op = "api_health" /\ th[t].resp.status = 200
        /\ th[t].resp.count = 2 /\ th[t].resp.clicks = 1
        /\ \E c \in Codes : Has(url_stats, c) /\ Clicks(c) = 0

\* a List answered 200 returns what ListUrls gives for the state of its
\* response
ListReturnsListUrls ==
    \A t \in SeqThreads :
        (Done(t) /\ th[t].op = "list" /\ th[t].resp.status = 200) =>
            /\ th[t].resp.urls = ListUrls
            /\ th[t].resp.count = Len(ListUrls)

====
